---------------------------- MODULE Spec2Model ----------------------------
(***************************************************************************)
(* A model of pyfronius (src/pyfronius/fronius.py): the Fronius client,    *)
(* its six public operations, the fetch and envelope extraction, the field *)
(* copy rule _copy and the endpoint normalizers.                           *)
(*                                                                         *)
(* Python values are tagged records:                                       *)
(*   [t |-> "num", n |-> 5]      an int                                     *)
(*   [t |-> "str", s |-> "W"]    a str                                      *)
(*   [t |-> "null"]              None                                       *)
(*   [t |-> "obj", m |-> f]      a dict with str keys (f: key -> value)     *)
(*   [t |-> "arr", a |-> seq]    a list                                     *)
(*   [t |-> "idict", m |-> f]    a dict with int keys                       *)
(*   [t |-> "raise", exc |-> e]  a raised exception (not a value)           *)
(***************************************************************************)
EXTENDS Integers, Sequences, FiniteSets, TLC

VARIABLES
    host,            \* self.host
    timeout,         \* self.timeout
    protocol,        \* self.protocol
    ctor,            \* the constructor's arguments (history)
    defaulttimeout,  \* socket.getdefaulttimeout() of the process
    net,             \* what the device does with a GET
    call,            \* the invocation: operation and arguments
    requests,        \* the HTTP requests the invocation issued
    result           \* the invocation's outcome

vars == <<host, timeout, protocol, ctor, defaulttimeout, net, call, requests, result>>

---------------------------------------------------------------------------
(* Bounds of the model.                                                    *)

MaxVal == 2        \* numeric readings range over 0..MaxVal
MaxDevice == 1     \* device ids range over 0..MaxDevice
MaxInverters == 2  \* inverter ids range over "1".."MaxInverters"
MaxModules == 2    \* a storage payload holds at most MaxModules modules

---------------------------------------------------------------------------
(* Python values and the primitives the code uses on them.                 *)

Num(n) == [t |-> "num", n |-> n]
Str(s) == [t |-> "str", s |-> s]
None == [t |-> "null"]
Obj(m) == [t |-> "obj", m |-> m]
Arr(a) == [t |-> "arr", a |-> a]
IDict(m) == [t |-> "idict", m |-> m]
Raise(e) == [t |-> "raise", exc |-> e]

IsRaise(v) == v.t = "raise"

EmptyMap == [k \in {} |-> None]

\* d[k] = v on a dict's mapping
Put(m, k, v) == [x \in (DOMAIN m) \cup {k} |-> IF x = k THEN v ELSE m[x]]

\* dict.update
Update(m, u) == [x \in (DOMAIN m) \cup (DOMAIN u) |-> IF x \in DOMAIN u THEN u[x] ELSE m[x]]

\* Python truthiness: `not v` is ~Truthy(v)
Truthy(v) ==
    CASE v.t = "num" -> v.n # 0
      [] v.t = "str" -> v.s # ""
      [] v.t = "null" -> FALSE
      [] v.t = "obj" -> DOMAIN v.m # {}
      [] v.t = "idict" -> DOMAIN v.m # {}
      [] v.t = "arr" -> Len(v.a) > 0

\* sub occurs in s (str.__contains__)
StrContains(s, sub) ==
    \E i \in 1..(Len(s) - Len(sub) + 1) : SubSeq(s, i, i + Len(sub) - 1) = sub

\* `k in v` raises TypeError on an int and on None
InRaises(v) == v.t \in {"num", "null"}

\* `k in v` for a str k, where it does not raise
In(k, v) ==
    CASE v.t = "obj" -> k \in DOMAIN v.m
      [] v.t = "arr" -> \E i \in 1..Len(v.a) : v.a[i].t = "str" /\ v.a[i].s = k
      [] v.t = "str" -> StrContains(v.s, k)
      [] OTHER -> FALSE

\* v[k] for a str k
Get(v, k) ==
    IF v.t = "obj"
    THEN IF k \in DOMAIN v.m THEN v.m[k] ELSE Raise("KeyError")
    ELSE Raise("TypeError")

\* for i in d: the keys of a dict, one after the other
RECURSIVE Keys(_)
Keys(S) ==
    IF S = {} THEN <<>>
    ELSE LET x == CHOOSE y \in S : TRUE IN <<x>> \o Keys(S \ {x})

---------------------------------------------------------------------------
(* Fronius._copy, fronius.py:337-351.                                      *)

\* a mutant: the fixed unit does not override a unit the source supplies
_copy_unit_kept(source, target, sid, tid, unit) ==
    IF InRaises(source) THEN Raise("TypeError")
    ELSE LET has == In(sid, source)
             item == Get(source, sid)
         IN  IF has /\ IsRaise(item) THEN item
             ELSE LET r1 == IF has /\ item.t = "obj" /\ "Value" \in DOMAIN item.m
                            THEN IF "Unit" \in DOMAIN item.m
                                 THEN [value |-> item.m.Value, unit |-> item.m.Unit]
                                 ELSE [value |-> item.m.Value]
                            ELSE IF has THEN [value |-> item]
                            ELSE [value |-> Num(0)]
                  IN  Obj(Put(target.m, tid,
                              Obj(IF unit.t # "null" /\ "unit" \notin DOMAIN r1
                                  THEN Put(r1, "unit", unit) ELSE r1)))

_copy(source, target, sid, tid, unit) ==
    IF InRaises(source) THEN Raise("TypeError")
    ELSE LET has == In(sid, source)
             item == Get(source, sid)
         IN  IF has /\ IsRaise(item) THEN item
             ELSE LET r1 == IF has /\ item.t = "obj" /\ "Value" \in DOMAIN item.m
                            THEN IF "Unit" \in DOMAIN item.m
                                 THEN [value |-> item.m.Value, unit |-> item.m.Unit]
                                 ELSE [value |-> item.m.Value]
                            ELSE IF has THEN [value |-> item]
                            ELSE [value |-> Num(0)]
                  IN  Obj(Put(target.m, tid,
                              Obj(IF unit.t # "null" THEN Put(r1, "unit", unit) ELSE r1)))

---------------------------------------------------------------------------
(* The shared entity normalizers: tables of _copy calls, in the order of   *)
(* the source. A table row is <<sid, tid, unit>>.                          *)

\* v[k], where v may already be a raised exception
Get2(v, k) == IF IsRaise(v) THEN v ELSE Get(v, k)

\* the rows from the i-th on, applied one after the other; an exception
\* (raised by a row, or before the first row) ends the run
RECURSIVE CopyAll(_, _, _, _)
CopyAll(source, target, table, i) ==
    IF IsRaise(target) \/ i > Len(table) THEN target
    ELSE CopyAll(source, _copy(source, target, table[i][1], table[i][2], table[i][3]),
                 table, i + 1)

\* d[k] = v, where evaluating v may have raised
Store(d, k, v) == IF IsRaise(v) THEN v ELSE Obj(Put(d.m, k, v))

\* d.update(v), where evaluating v may have raised
Merge(d, v) == IF IsRaise(v) THEN v ELSE Obj(Update(d.m, v.m))

DetailsFields ==
    << <<"Manufacturer", "manufacturer", None>>,
       <<"Model", "model", None>>,
       <<"Serial", "serial", None>> >>

\* if "Details" in data: the three _copy calls from data['Details']
CopyDetails(data, target) ==
    IF IsRaise(target) THEN target
    ELSE IF InRaises(data) THEN Raise("TypeError")
    ELSE IF ~In("Details", data) THEN target
    ELSE LET d == Get(data, "Details")
         IN  IF IsRaise(d) THEN d ELSE CopyAll(d, target, DetailsFields, 1)

MeterFields ==
    << <<"Current_AC_Phase_1", "current_ac_phase_1", Str("A")>>,
       <<"Current_AC_Phase_2", "current_ac_phase_2", Str("A")>>,
       <<"Current_AC_Phase_3", "current_ac_phase_3", Str("A")>>,
       <<"EnergyReactive_VArAC_Sum_Consumed", "energy_reactive_ac_consumed", Str("Wh")>>,
       <<"EnergyReactive_VArAC_Sum_Produced", "energy_reactive_ac_produced", Str("Wh")>>,
       <<"EnergyReal_WAC_Minus_Absolute", "energy_real_ac_minus", Str("Wh")>>,
       <<"EnergyReal_WAC_Plus_Absolute", "energy_real_ac_plus", Str("Wh")>>,
       <<"EnergyReal_WAC_Sum_Consumed", "energy_real_consumed", Str("Wh")>>,
       <<"EnergyReal_WAC_Sum_Produced", "energy_real_produced", Str("Wh")>>,
       <<"Frequency_Phase_Average", "frequency_phase_average", Str("H")>>,
       <<"PowerApparent_S_Phase_1", "power_apparent_phase_1", Str("W")>>,
       <<"PowerApparent_S_Phase_2", "power_apparent_phase_2", Str("W")>>,
       <<"PowerApparent_S_Phase_3", "power_apparent_phase_3", Str("W")>>,
       <<"PowerApparent_S_Sum", "power_apparent", Str("W")>>,
       <<"PowerFactor_Phase_1", "power_factor_phase_1", Str("W")>>,
       <<"PowerFactor_Phase_2", "power_factor_phase_2", Str("W")>>,
       <<"PowerFactor_Phase_3", "power_factor_phase_3", Str("W")>>,
       <<"PowerFactor_Sum", "power_factor", Str("W")>>,
       <<"PowerReactive_Q_Phase_1", "power_reactive_phase_1", Str("W")>>,
       <<"PowerReactive_Q_Phase_2", "power_reactive_phase_2", Str("W")>>,
       <<"PowerReactive_Q_Phase_3", "power_reactive_phase_3", Str("W")>>,
       <<"PowerReactive_Q_Sum", "power_reactive", Str("W")>>,
       <<"PowerReal_P_Phase_1", "power_real_phase_1", Str("W")>>,
       <<"PowerReal_P_Phase_2", "power_real_phase_2", Str("W")>>,
       <<"PowerReal_P_Phase_3", "power_real_phase_3", Str("W")>>,
       <<"PowerReal_P_Sum", "power_real", Str("W")>>,
       <<"Voltage_AC_Phase_1", "voltage_ac_phase_1", Str("V")>>,
       <<"Voltage_AC_Phase_2", "voltage_ac_phase_2", Str("V")>>,
       <<"Voltage_AC_Phase_3", "voltage_ac_phase_3", Str("V")>>,
       <<"Voltage_AC_PhaseToPhase_12", "voltage_ac_phase_to_phase_12", Str("V")>>,
       <<"Voltage_AC_PhaseToPhase_23", "voltage_ac_phase_to_phase_23", Str("V")>>,
       <<"Voltage_AC_PhaseToPhase_31", "voltage_ac_phase_to_phase_31", Str("V")>>,
       <<"Meter_Location_Current", "meter_location", None>>,
       <<"Enable", "enable", None>>,
       <<"Visible", "visible", None>> >>

_meter_data(data) ==
    CopyDetails(data, CopyAll(data, Obj(EmptyMap), MeterFields, 1))

ControllerFields ==
    << <<"Capacity_Maximum", "capacity_maximum", Str("Ah")>>,
       <<"DesignedCapacity", "capacity_designed", Str("Ah")>>,
       <<"Current_DC", "current_dc", Str("A")>>,
       <<"Voltage_DC", "voltage_dc", Str("V")>>,
       <<"Voltage_DC_Maximum_Cell", "voltage_dc_maximum_cell", Str("V")>>,
       <<"Voltage_DC_Minimum_Cell", "voltage_dc_minimum_cell", Str("V")>>,
       <<"StateOfCharge_Relative", "state_of_charge", Str("%")>>,
       <<"Temperature_Cell", "temperature_cell", Str("C")>>,
       <<"Enable", "enable", None>> >>

_controller_data(data) ==
    CopyDetails(data, CopyAll(data, Obj(EmptyMap), ControllerFields, 1))

ModuleFields ==
    << <<"Capacity_Maximum", "capacity_maximum", Str("Ah")>>,
       <<"DesignedCapacity", "capacity_designed", Str("Ah")>>,
       <<"Current_DC", "current_dc", Str("A")>>,
       <<"Voltage_DC", "voltage_dc", Str("V")>>,
       <<"Voltage_DC_Maximum_Cell", "voltage_dc_maximum_cell", Str("V")>>,
       <<"Voltage_DC_Minimum_Cell", "voltage_dc_minimum_cell", Str("V")>>,
       <<"StateOfCharge_Relative", "state_of_charge", Str("%")>>,
       <<"Temperature_Cell", "temperature_cell", Str("C")>>,
       <<"Temperature_Cell_Maximum", "temperature_cell_maximum", Str("C")>>,
       <<"Temperature_Cell_Minimum", "temperature_cell_minimum", Str("C")>>,
       <<"CycleCount_BatteryCell", "cycle_count_cell", Str("C")>>,
       <<"Status_BatteryCell", "status_cell", None>>,
       <<"Enable", "enable", None>> >>

_module_data(data) ==
    CopyDetails(data, CopyAll(data, Obj(EmptyMap), ModuleFields, 1))

---------------------------------------------------------------------------
(* The endpoint normalizers. Each takes the header bundle and Body.Data    *)
(* and gives the bundle returned, or the exception raised.                 *)

InverterFields ==
    << <<"Battery_Mode", "battery_mode", None>>,
       <<"SOC", "state_of_charge", Str("%")>> >>

SiteFields ==
    << <<"BatteryStandby", "battery_standby", None>>,
       <<"E_Day", "energy_day", Str("Wh")>>,
       <<"E_Total", "energy_total", Str("Wh")>>,
       <<"E_Year", "energy_year", Str("Wh")>>,
       <<"Meter_Location", "meter_location", None>>,
       <<"Mode", "meter_mode", None>>,
       <<"P_Akku", "power_battery", Str("W")>>,
       <<"P_Grid", "power_grid", Str("W")>>,
       <<"P_Load", "power_load", Str("W")>>,
       <<"P_PV", "power_photovoltaics", Str("W")>>,
       <<"rel_Autonomy", "relative_autonomy", Str("%")>>,
       <<"rel_SelfConsumption", "relative_self_consumption", Str("%")>> >>

\* a mutant: another inverter of the payload is read when there is one
_system_power_flow_first(sensor, data) ==
    LET site == Get(data, "Site")
        invs == Get(data, "Inverters")
        inverter == IF IsRaise(invs) THEN invs
                    ELSE IF invs.t # "obj" THEN Raise("TypeError")
                    ELSE IF DOMAIN invs.m = {} THEN Raise("KeyError")
                    ELSE IF DOMAIN invs.m = {"1"} THEN invs.m["1"]
                    ELSE invs.m[CHOOSE k \in DOMAIN invs.m : k # "1"]
    IN  IF IsRaise(site) THEN site
        ELSE IF IsRaise(inverter) THEN inverter
        ELSE CopyAll(site, CopyAll(inverter, sensor, InverterFields, 1), SiteFields, 1)

_system_power_flow(sensor, data) ==
    LET site == Get(data, "Site")
        inverter == Get2(Get(data, "Inverters"), "1")
    IN  IF IsRaise(site) THEN site
        ELSE IF IsRaise(inverter) THEN inverter
        ELSE CopyAll(site, CopyAll(inverter, sensor, InverterFields, 1), SiteFields, 1)

\* for i in data: sensor['meters'][i] = self._meter_data(data[i])
RECURSIVE MeterLoop(_, _, _)
MeterLoop(meters, data, ids) ==
    IF IsRaise(meters) \/ ids = <<>> THEN meters
    ELSE MeterLoop(Store(meters, Head(ids), _meter_data(data.m[Head(ids)])), data, Tail(ids))

\* a mutant: the meters are merged into the bundle itself
_system_meter_data_flat(sensor, data) ==
    IF data.t # "obj" THEN Raise("TypeError")
    ELSE MeterLoop(sensor, data, Keys(DOMAIN data.m))

\* (the payloads of the model are mappings or ints: iterating an int raises)
_system_meter_data(sensor, data) ==
    IF data.t # "obj" THEN Raise("TypeError")
    ELSE Store(sensor, "meters", MeterLoop(Obj(EmptyMap), data, Keys(DOMAIN data.m)))

\* a mutant: the bundle returned is the meter alone
_device_meter_data_alone(sensor, data) ==
    _meter_data(data)

_device_meter_data(sensor, data) ==
    Merge(sensor, _meter_data(data))

DeviceInverterFields ==
    << <<"DAY_ENERGY", "energy_day", None>>,
       <<"TOTAL_ENERGY", "energy_total", None>>,
       <<"YEAR_ENERGY", "energy_year", None>>,
       <<"FAC", "frequency_ac", None>>,
       <<"IAC", "current_ac", None>>,
       <<"IDC", "current_dc", None>>,
       <<"PAC", "power_ac", None>>,
       <<"UAC", "voltage_ac", None>>,
       <<"UDC", "voltage_dc", None>> >>

_device_inverter_data(sensor, data) ==
    CopyAll(data, sensor, DeviceInverterFields, 1)

\* for x in v: the items a for loop visits (the keys of a dict, the items of
\* a list, the characters of a str); an int and None are not iterable
Iterate(v) ==
    CASE v.t = "arr" -> v.a
      [] v.t = "obj" -> LET ks == Keys(DOMAIN v.m) IN [i \in 1..Len(ks) |-> Str(ks[i])]
      [] v.t = "str" -> [i \in 1..Len(v.s) |-> Str(SubSeq(v.s, i, i))]
      [] OTHER -> <<>>

\* the first exception among the modules normalized, if any
FirstRaise(seq) ==
    IF \E i \in 1..Len(seq) : IsRaise(seq[i])
    THEN seq[CHOOSE i \in 1..Len(seq) : IsRaise(seq[i]) /\ \A j \in 1..(i - 1) : ~IsRaise(seq[j])]
    ELSE None

\* a mutant: the modules are counted from one
Numbered_from_one(sensor, done) ==
    IF FirstRaise(done) # None THEN FirstRaise(done)
    ELSE Obj(Put(sensor.m, "modules", IDict([k \in 1..Len(done) |-> done[k]])))

\* sensor['modules'] = { }; module_count = 0; then for each module
\* normalized: sensor['modules'][module_count] = ...; module_count += 1
Numbered(sensor, done) ==
    IF FirstRaise(done) # None THEN FirstRaise(done)
    ELSE Obj(Put(sensor.m, "modules", IDict([k \in 0..(Len(done) - 1) |-> done[k + 1]])))

\* if 'Modules' in data: for module in data['Modules']: _module_data(module)
StorageModules(sensor, data) ==
    IF IsRaise(sensor) \/ ~In("Modules", data) THEN sensor
    ELSE LET mods == Get(data, "Modules")
         IN  IF IsRaise(mods) THEN mods
             ELSE IF InRaises(mods) THEN Raise("TypeError")
             ELSE Numbered(sensor, [i \in 1..Len(Iterate(mods)) |-> _module_data(Iterate(mods)[i])])

_device_storage_data(sensor, data) ==
    IF InRaises(data) THEN Raise("TypeError")
    ELSE IF In("Controller", data)
    THEN LET c == Get(data, "Controller")
         IN  IF IsRaise(c) THEN c
             ELSE StorageModules(Merge(sensor, _controller_data(c)), data)
    ELSE StorageModules(sensor, data)

\* sensor[agg]['value'] += v
AddTo(sensor, agg, v) ==
    IF v.t # "num" THEN Raise("TypeError")
    ELSE Obj(Put(sensor.m, agg,
                 Obj(Put(sensor.m[agg].m, "value", Num(sensor.m[agg].m.value.n + v.n)))))

\* the body of one series' loop, for the ids from the first of `ids` on:
\*   [sensor['inverters'][i] = { }]                       (create: DAY_ENERGY only)
\*   sensor['inverters'][i][field] = { 'value': data[name]['Values'][i],
\*                                     'unit': data[unitFrom]['Unit'] }
\*   sensor[field]['value'] += data[name]['Values'][i]
RECURSIVE SeriesLoop(_, _, _, _, _, _, _)
SeriesLoop(sensor, data, name, field, unitFrom, create, ids) ==
    IF ids = <<>> THEN sensor
    ELSE LET i == Head(ids)
             v == data.m[name].m.Values.m[i]
             unit == Get2(Get(data, unitFrom), "Unit")
             invs == sensor.m.inverters.m
             entry == IF create THEN EmptyMap ELSE invs[i].m
             s1 == Obj(Put(sensor.m, "inverters",
                           Obj(Put(invs, i, Obj(Put(entry, field, Obj([value |-> v, unit |-> unit]))))))) 
             s2 == AddTo(s1, field, v)
         IN  IF IsRaise(unit) THEN unit
             ELSE IF ~create /\ i \notin DOMAIN invs THEN Raise("KeyError")
             ELSE IF IsRaise(s2) THEN s2
             ELSE SeriesLoop(s2, data, name, field, unitFrom, create, Tail(ids))

\* if name in data: for i in data[name]['Values']: ...
Series(sensor, data, name, field, unitFrom, create) ==
    IF IsRaise(sensor) THEN sensor
    ELSE IF ~In(name, data) THEN sensor
    ELSE LET values == Get2(Get(data, name), "Values")
         IN  IF IsRaise(values) THEN values
             ELSE IF InRaises(values) THEN Raise("TypeError")
             ELSE IF values.t # "obj" THEN sensor
             ELSE SeriesLoop(sensor, data, name, field, unitFrom, create, Keys(DOMAIN values.m))

\* the aggregates and the inverters mapping the normalizer starts from
SystemInverterStart(sensor) ==
    Obj(Update(sensor.m,
        [energy_day |-> Obj([value |-> Num(0), unit |-> Str("Wh")]),
         energy_total |-> Obj([value |-> Num(0), unit |-> Str("Wh")]),
         energy_year |-> Obj([value |-> Num(0), unit |-> Str("Wh")]),
         power_ac |-> Obj([value |-> Num(0), unit |-> Str("W")]),
         inverters |-> Obj(EmptyMap)]))

_system_inverter_data(sensor, data) ==
    IF InRaises(data) THEN Raise("TypeError")
    ELSE Series(Series(Series(Series(SystemInverterStart(sensor),
                                     data, "DAY_ENERGY", "energy_day", "DAY_ENERGY", TRUE),
                              data, "TOTAL_ENERGY", "energy_total", "TOTAL_ENERGY", FALSE),
                       data, "YEAR_ENERGY", "energy_year", "TOTAL_ENERGY", FALSE),
                data, "PAC", "power_ac", "TOTAL_ENERGY", FALSE)

---------------------------------------------------------------------------
(* Fronius.__init__, fronius.py:23-32.                                     *)

__init__(h, useHTTPS, t) ==
    [host |-> h, timeout |-> t, protocol |-> IF useHTTPS THEN "https" ELSE "http"]

Hosts == {"fronius.local"}
Timeouts == {3, 10}

\* the client after Fronius(h, useHTTPS, t)
Constructed(h, u, t) ==
    LET self == __init__(h, u, t)
    IN  /\ host = self.host
        /\ timeout = self.timeout
        /\ protocol = self.protocol
        /\ ctor = [host |-> h, useHTTPS |-> u, timeout |-> t]

NoResult == [t |-> "none"]

---------------------------------------------------------------------------
(* The URL templates, fronius.py:7-13, and str.format.                     *)

URL_POWER_FLOW == "{}://{}/solar_api/v1/GetPowerFlowRealtimeData.fcgi"
URL_SYSTEM_METER == "{}://{}/solar_api/v1/GetMeterRealtimeData.cgi?Scope=System"
URL_SYSTEM_INVERTER == "{}://{}/solar_api/v1/GetInverterRealtimeData.cgi?Scope=System"
URL_DEVICE_METER == "{}://{}/solar_api/v1/GetMeterRealtimeData.cgi?Scope=Device&DeviceId={}"
URL_DEVICE_STORAGE == "{}://{}/solar_api/v1/GetStorageRealtimeData.cgi?Scope=Device&DeviceId={}"
URL_DEVICE_INVERTER_COMMON == "{}://{}/solar_api/v1/GetInverterRealtimeData.cgi?Scope=Device&DeviceId={}&DataCollection=CommonInverterData"

Digits == <<"0", "1", "2", "3", "4", "5", "6", "7", "8", "9">>

\* str(n) for an int n >= 0
RECURSIVE IntStr(_)
IntStr(n) == IF n < 10 THEN Digits[n + 1] ELSE IntStr(n \div 10) \o Digits[(n % 10) + 1]

\* the places of tpl where a "{}" starts
Holes(tpl) == {i \in 1..(Len(tpl) - 1) : SubSeq(tpl, i, i + 1) = "{}"}

\* tpl.format(*args): each "{}" is replaced by the next argument (a str)
RECURSIVE Format(_, _)
Format(tpl, args) ==
    IF Holes(tpl) = {} THEN tpl
    ELSE LET i == CHOOSE h \in Holes(tpl) : \A g \in Holes(tpl) : h <= g
         IN  SubSeq(tpl, 1, i - 1) \o Head(args) \o Format(SubSeq(tpl, i + 2, Len(tpl)), Tail(args))

---------------------------------------------------------------------------
(* Fetch and envelope extraction, fronius.py:102-130.                      *)

\* urllib.request.urlopen's timeout parameter when the caller passes none
GLOBAL_DEFAULT_TIMEOUT == [kind |-> "socket._GLOBAL_DEFAULT_TIMEOUT"]
Seconds(n) == [kind |-> "seconds", s |-> n]

Blocked == [t |-> "blocked"]

\* the timeout a request runs under: its own, or the process default
Effective(req) == IF req.timeout = GLOBAL_DEFAULT_TIMEOUT THEN defaulttimeout ELSE Num(req.timeout.s)

\* urlopen(req).read().decode() against the device: the body's text, an
\* exception, or no return at all
Transport(req) ==
    CASE net.kind = "refused" -> Raise("URLError")
      [] net.kind = "unresponsive" ->
            IF Effective(req) = None THEN Blocked ELSE Raise("timeout")
      [] net.kind = "body" -> [t |-> "text", text |-> net.text]

\* json.loads
json_loads(text) == IF text.valid THEN text.doc ELSE Raise("JSONDecodeError")

\* a mutant: a failed fetch is tried once more
_fetch_json_retry(url) ==
    LET req == [method |-> "GET", url |-> url, timeout |-> GLOBAL_DEFAULT_TIMEOUT]
        got == Transport(req)
    IN  IF got.t = "text"
        THEN [requests |-> <<req>>, out |-> json_loads(got.text)]
        ELSE [requests |-> <<req, req>>, out |-> got]

\* the requests issued and the outcome: the parsed document, an exception,
\* or Blocked
_fetch_json(url) ==
    LET req == [method |-> "GET", url |-> url, timeout |-> GLOBAL_DEFAULT_TIMEOUT]
        got == Transport(req)
    IN  [requests |-> <<req>>,
         out |-> IF got.t = "text" THEN json_loads(got.text) ELSE got]

_status_data(json) ==
    LET head == Get(json, "Head")
        timestamp == Get2(head, "Timestamp")
        status == Get2(head, "Status")
        code == Get2(status, "Code")
        reason == Get2(status, "Reason")
        message == Get2(status, "UserMessage")
    IN  IF IsRaise(timestamp) THEN timestamp
        ELSE IF IsRaise(status) THEN status
        ELSE IF IsRaise(code) THEN code
        ELSE IF IsRaise(reason) THEN reason
        ELSE IF IsRaise(message) THEN message
        ELSE Obj([timestamp |-> Obj([value |-> timestamp]),
                  status |-> status,
                  status_code |-> Obj([value |-> code]),
                  status_reason |-> Obj([value |-> reason]),
                  status_message |-> Obj([value |-> message])])

\* fun(sensor, data) for the bound method handed to _current_data
Apply(fun, sensor, data) ==
    CASE fun = "_system_power_flow" -> _system_power_flow(sensor, data)
      [] fun = "_system_meter_data" -> _system_meter_data(sensor, data)
      [] fun = "_system_inverter_data" -> _system_inverter_data(sensor, data)
      [] fun = "_device_meter_data" -> _device_meter_data(sensor, data)
      [] fun = "_device_storage_data" -> _device_storage_data(sensor, data)
      [] fun = "_device_inverter_data" -> _device_inverter_data(sensor, data)

\* the requests issued and the outcome of the call
_current_data(url, fun) ==
    LET fetched == _fetch_json(url)
        json == fetched.out
        sensor == _status_data(json)
        body == Get(json, "Body")
        data == Get(body, "Data")
    IN  [requests |-> fetched.requests,
         out |-> IF json.t \in {"raise", "blocked"} THEN json
                 ELSE IF IsRaise(sensor) THEN sensor
                 ELSE IF IsRaise(body) THEN body
                 ELSE IF ~Truthy(body) THEN sensor
                 ELSE IF IsRaise(data) THEN data
                 ELSE IF ~Truthy(data) THEN sensor
                 ELSE Apply(fun, sensor, data)]

---------------------------------------------------------------------------
(* The public operations, fronius.py:35-99. An invocation is one action:   *)
(* the URL is built, fetched and normalized, and the caller holds the      *)
(* outcome. A caller whose call never returned makes no further call.      *)

Devices == 0..MaxDevice

Invoke(c, r) ==
    /\ result # Blocked
    /\ call' = c
    /\ requests' = r.requests
    /\ result' = r.out
    /\ UNCHANGED <<host, timeout, protocol, ctor, defaulttimeout, net>>

\* a mutant: the operation switches the client to plain http
current_power_flow_downgrade ==
    /\ result # Blocked
    /\ call' = [op |-> "current_power_flow"]
    /\ LET r == _current_data(Format(URL_POWER_FLOW, <<protocol, host>>), "_system_power_flow")
       IN  requests' = r.requests /\ result' = r.out
    /\ protocol' = "http"
    /\ UNCHANGED <<host, timeout, ctor, defaulttimeout, net>>

current_power_flow ==
    Invoke([op |-> "current_power_flow"],
           _current_data(Format(URL_POWER_FLOW, <<protocol, host>>), "_system_power_flow"))

current_system_meter_data ==
    Invoke([op |-> "current_system_meter_data"],
           _current_data(Format(URL_SYSTEM_METER, <<protocol, host>>), "_system_meter_data"))

current_system_inverter_data ==
    Invoke([op |-> "current_system_inverter_data"],
           _current_data(Format(URL_SYSTEM_INVERTER, <<protocol, host>>), "_system_inverter_data"))

current_meter_data ==
    \E device \in Devices :
        Invoke([op |-> "current_meter_data", device |-> device],
               _current_data(Format(URL_DEVICE_METER, <<protocol, host, IntStr(device)>>),
                             "_device_meter_data"))

current_storage_data ==
    \E device \in Devices :
        Invoke([op |-> "current_storage_data", device |-> device],
               _current_data(Format(URL_DEVICE_STORAGE, <<protocol, host, IntStr(device)>>),
                             "_device_storage_data"))

current_inverter_data ==
    \E device \in Devices :
        Invoke([op |-> "current_inverter_data", device |-> device],
               _current_data(Format(URL_DEVICE_INVERTER_COMMON, <<protocol, host, IntStr(device)>>),
                             "_device_inverter_data"))

---------------------------------------------------------------------------
(* The devices of the model: what a GET meets.                             *)

Head1 ==
    Obj([Timestamp |-> Str("2019-06-12T15:31:02+02:00"),
         Status |-> Obj([Code |-> Num(0), Reason |-> Str(""), UserMessage |-> Str("")])])

Head2 ==
    Obj([Timestamp |-> Str("2019-06-12T15:31:03+02:00"),
         Status |-> Obj([Code |-> Num(255), Reason |-> Str("Storages are not supported"),
                         UserMessage |-> Str("no storage")])])

Heads == {Head1, Head2}

Doc(head, body) == Obj([Head |-> head, Body |-> body])
BodyOf(data) == Obj([Data |-> data])
Answer(doc) == [kind |-> "body", text |-> [valid |-> TRUE, doc |-> doc]]

Wh(v) == Obj([Value |-> Num(v), Unit |-> Str("Wh")])

\* Body.Data payloads that count as empty
EmptyData == {Obj(EmptyMap), Arr(<<>>), Str(""), Num(0), None}

\* bodies without a payload: Body null or empty, or Data empty
EmptyBodies == {None, Obj(EmptyMap)} \cup {BodyOf(d) : d \in EmptyData}

\* a non-empty Body that has no Data key
NoDataBody == Obj([Other |-> Num(1)])

Details1 == Obj([Manufacturer |-> Str("Fronius"), Model |-> Str("Smart Meter 63A"), Serial |-> Str("15160189")])

MeterPayloads ==
    {Obj([PowerReal_P_Sum |-> Num(v), Enable |-> Num(1), Details |-> Details1]) : v \in 0..MaxVal}
    \cup {Obj([Current_AC_Phase_1 |-> Obj([Value |-> Num(v), Unit |-> Str("mA")]), Visible |-> Num(1)]) : v \in 1..MaxVal}

InverterIds == {IntStr(i) : i \in 1..MaxInverters}

FlowInverter(i) ==
    IF i = "1" THEN Obj([Battery_Mode |-> Str("normal"), SOC |-> Num(55)])
    ELSE Obj([Battery_Mode |-> Str("disabled"), SOC |-> Num(7)])

FlowSites ==
    {Obj(EmptyMap),
     Obj([E_Day |-> Num(1), P_Grid |-> Num(2), P_PV |-> None, Mode |-> Str("meter"),
          Meter_Location |-> Str("grid")])}

FlowPayloads ==
    {Obj([Site |-> s, Inverters |-> Obj([i \in I |-> FlowInverter(i)])]) :
        s \in FlowSites, I \in SUBSET InverterIds}
    \cup {Obj([Site |-> s, Inverters |-> Obj([i \in {"1"} |-> Obj(EmptyMap)])]) : s \in FlowSites}
    \cup {Obj([Site |-> s]) : s \in FlowSites}
    \cup {Obj([Inverters |-> Obj([i \in {"1"} |-> FlowInverter(i)])])}

SystemMeterPayloads ==
    {Obj([i \in I |-> IF i = "0" THEN m ELSE Obj([Enable |-> Num(0)])]) :
        I \in (SUBSET {"0", "1"}) \ {{}}, m \in MeterPayloads}

\* one series of the system inverter payload: ids -> value, with a Unit
SeriesOf(unit, I, base) ==
    Obj([Unit |-> Str(unit), Values |-> Obj([i \in I |-> Num(base + Len(i))])])

FewSystemInverterPayloads ==
    {Obj([DAY_ENERGY |-> SeriesOf("Wh", InverterIds, 1)]),
     Obj([DAY_ENERGY |-> SeriesOf("Wh", InverterIds, 1),
          TOTAL_ENERGY |-> SeriesOf("kWh", InverterIds, 2),
          YEAR_ENERGY |-> SeriesOf("Wh", InverterIds, 3),
          PAC |-> SeriesOf("W", InverterIds, 4)]),
     Obj([PAC |-> SeriesOf("W", InverterIds, 4)])}

Module1 == Obj([Enable |-> Num(1), Details |-> Details1])
Module0 == Obj([Enable |-> Num(0), Temperature_Cell |-> Obj([Value |-> Num(21)])])
Controller1 == Obj([StateOfCharge_Relative |-> Num(80), Enable |-> Num(1), Details |-> Details1])

FewStoragePayloads ==
    {Obj([Controller |-> Controller1]),
     Obj([Modules |-> Arr(<<Module1, Module0>>)]),
     Obj([Controller |-> Controller1, Modules |-> Arr(<<Module0>>)])}

DeviceInverterPayloads ==
    {Obj([DAY_ENERGY |-> Wh(v), PAC |-> Obj([Value |-> Num(v), Unit |-> Str("W")]),
          UAC |-> Num(230)]) : v \in 1..MaxVal}

Payloads ==
    MeterPayloads \cup FlowPayloads \cup SystemMeterPayloads \cup FewSystemInverterPayloads
    \cup FewStoragePayloads \cup DeviceInverterPayloads \cup {Num(1)}

\* documents whose Head lacks a required field, and one that is no mapping
BadHeadDocs ==
    {Obj([Body |-> BodyOf(Obj(EmptyMap))]),
     Doc(None, BodyOf(Obj(EmptyMap))),
     Doc(Obj([Status |-> Head1.m.Status]), BodyOf(Obj(EmptyMap))),
     Doc(Obj([Timestamp |-> Head1.m.Timestamp]), BodyOf(Obj(EmptyMap))),
     Doc(Obj([Timestamp |-> Head1.m.Timestamp, Status |-> Obj([Reason |-> Str(""), UserMessage |-> Str("")])]),
         BodyOf(Obj(EmptyMap))),
     Doc(Obj([Timestamp |-> Head1.m.Timestamp, Status |-> Obj([Code |-> Num(0), UserMessage |-> Str("")])]),
         BodyOf(Obj([Enable |-> Num(1)]))),
     Doc(Obj([Timestamp |-> Head1.m.Timestamp, Status |-> Obj([Code |-> Num(0), Reason |-> Str("")])]),
         BodyOf(Obj([Enable |-> Num(1)]))),
     Arr(<<>>)}

\* documents with a well-formed Head
GoodHeadDocs ==
    {Doc(h, b) : h \in Heads, b \in EmptyBodies \cup {NoDataBody}}
    \cup {Doc(Head1, BodyOf(d)) : d \in Payloads}
    \cup {Doc(Head2, BodyOf(d)) : d \in FewStoragePayloads}
    \cup {Doc(Head1, Num(1)), Obj([Head |-> Head1])}

Failures ==
    {[kind |-> "refused"], [kind |-> "unresponsive"],
     [kind |-> "body", text |-> [valid |-> FALSE]]}

Nets == Failures \cup {Answer(d) : d \in BadHeadDocs \cup GoodHeadDocs}

---------------------------------------------------------------------------
(* The specifications.                                                     *)

NoCall == [op |-> "none"]

\* the state after construction, before the first call
InitWith(useHTTPSs, timeouts, defaults, nets) ==
    /\ \E h \in Hosts, u \in useHTTPSs, t \in timeouts : Constructed(h, u, t)
    /\ defaulttimeout \in defaults
    /\ net \in nets
    /\ call = NoCall
    /\ requests = <<>>
    /\ result = NoResult

\* (the process default timeout matters only to a GET that gets no answer)
Init ==
    \/ InitWith(BOOLEAN, Timeouts, {None}, Nets)
    \/ InitWith(BOOLEAN, Timeouts, {Num(5)}, {[kind |-> "unresponsive"]})

Next ==
    \/ current_power_flow
    \/ current_system_meter_data
    \/ current_system_inverter_data
    \/ current_meter_data
    \/ current_storage_data
    \/ current_inverter_data

Spec == Init /\ [][Next]_vars

---------------------------------------------------------------------------
(* What the properties speak of.                                           *)

HeaderKeys == {"timestamp", "status", "status_code", "status_reason", "status_message"}

PublicOps ==
    {"current_power_flow", "current_system_meter_data", "current_system_inverter_data",
     "current_meter_data", "current_storage_data", "current_inverter_data"}

Called == call.op \in PublicOps
Returned == result.t = "obj"
Raised == result.t = "raise"

\* the device answered with a JSON document
Answered == net.kind = "body" /\ net.text.valid
NetDoc == net.text.doc

\* the document has a well-formed Head
HeadOK ==
    /\ Answered
    /\ NetDoc.t = "obj"
    /\ "Head" \in DOMAIN NetDoc.m
    /\ NetDoc.m.Head.t = "obj"
    /\ {"Timestamp", "Status"} \subseteq DOMAIN NetDoc.m.Head.m
    /\ NetDoc.m.Head.m.Status.t = "obj"
    /\ {"Code", "Reason", "UserMessage"} \subseteq DOMAIN NetDoc.m.Head.m.Status.m

NetHead == NetDoc.m.Head
NetBody == NetDoc.m.Body
NetData == NetBody.m.Data

\* the document carries a non-empty Body.Data
HasPayload ==
    /\ HeadOK
    /\ "Body" \in DOMAIN NetDoc.m
    /\ NetBody.t = "obj"
    /\ "Data" \in DOMAIN NetBody.m
    /\ Truthy(NetData)

\* C1: for each of the six operations and every well-formed envelope, the
\* bundle returned holds timestamp, status, status_code, status_reason and
\* status_message with the values of Head.Timestamp, Head.Status,
\* Head.Status.Code, .Reason and .UserMessage, whatever the payload.
C1_HeaderKept ==
    (Called /\ HeadOK /\ Returned) =>
        /\ HeaderKeys \subseteq DOMAIN result.m
        /\ result.m.timestamp = Obj([value |-> NetHead.m.Timestamp])
        /\ result.m.status = NetHead.m.Status
        /\ result.m.status_code = Obj([value |-> NetHead.m.Status.m.Code])
        /\ result.m.status_reason = Obj([value |-> NetHead.m.Status.m.Reason])
        /\ result.m.status_message = Obj([value |-> NetHead.m.Status.m.UserMessage])

\* a meter payload was merged into the bundle of a device meter call
C1_Witness ==
    /\ call.op = "current_meter_data"
    /\ HasPayload /\ Returned
    /\ "power_real" \in DOMAIN result.m
    /\ result.m.power_real.m.value = Num(MaxVal)
    /\ result.m.status_code.m.value = Num(0)

\* the payload is empty or absent: Body empty or null, Data missing from
\* Body, or Data empty
NoPayload ==
    /\ HeadOK
    /\ "Body" \in DOMAIN NetDoc.m
    /\ \/ ~Truthy(NetBody)
       \/ NetBody.t = "obj" /\ "Data" \notin DOMAIN NetBody.m
       \/ NetBody.t = "obj" /\ "Data" \in DOMAIN NetBody.m /\ ~Truthy(NetData)

\* C2: with a well-formed Head and an empty or absent Body.Data payload
\* (Body empty or null, Data missing from Body, or Data an empty object,
\* array, string, 0 or null) the operation raises nothing and returns a
\* bundle whose keys are exactly the five header keys.
C2_EmptyPayload ==
    (Called /\ NoPayload) => (Returned /\ DOMAIN result.m = HeaderKeys)

\* the GET the invocation issued
TheUrl == requests[1].url

MeterKeys == {MeterFields[i][2] : i \in 1..Len(MeterFields)}

\* C6: current_meter_data(device=d) requests a URL containing
\* Scope=Device&DeviceId=d and, on a non-empty payload, returns the meter's
\* fields as top-level keys without a meters key; current_system_meter_data
\* requests a URL with Scope=System and returns the meter fields only under
\* meters[id], one entry per meter id of the payload and no other.
C6_MeterScopes ==
    /\ call.op = "current_meter_data" =>
          /\ Len(requests) = 1
          /\ StrContains(TheUrl, "Scope=Device&DeviceId=" \o IntStr(call.device))
          /\ (HasPayload /\ Returned) =>
                /\ MeterKeys \subseteq DOMAIN result.m
                /\ "meters" \notin DOMAIN result.m
    /\ call.op = "current_system_meter_data" =>
          /\ Len(requests) = 1
          /\ StrContains(TheUrl, "Scope=System")
          /\ (HasPayload /\ Returned) =>
                /\ DOMAIN result.m = HeaderKeys \cup {"meters"}
                /\ DOMAIN result.m.meters.m = DOMAIN NetData.m
                /\ \A id \in DOMAIN NetData.m :
                      MeterKeys \subseteq DOMAIN result.m.meters.m[id].m

\* the system-wide call returned two meters
C6_Witness ==
    /\ call.op = "current_system_meter_data"
    /\ HasPayload /\ Returned
    /\ DOMAIN result.m.meters.m = {"0", "1"}
    /\ result.m.meters.m["1"].m.enable.m.value = Num(0)

\* the payload is a power-flow payload: Site and an Inverters mapping
FlowPayload ==
    /\ HasPayload
    /\ NetData.t = "obj"
    /\ {"Site", "Inverters"} \subseteq DOMAIN NetData.m
    /\ NetData.m.Inverters.t = "obj"

\* what _copy stores for a scalar field of inverter "1"
FromInverter1(sid) ==
    IF sid \in DOMAIN NetData.m.Inverters.m["1"].m
    THEN NetData.m.Inverters.m["1"].m[sid]
    ELSE Num(0)

\* the payload without the inverters other than "1"
OnlyInverter1 ==
    Obj(Put(NetData.m, "Inverters", Obj([i \in {"1"} |-> NetData.m.Inverters.m[i]])))

\* C7: power flow reads only Inverters["1"]: battery_mode and
\* state_of_charge come from it and the bundle is the same whatever other
\* inverters the payload holds; a payload whose Inverters lacks "1" makes
\* current_power_flow raise a key error, with no bundle returned.
C7_PowerFlowInverter1 ==
    (call.op = "current_power_flow" /\ FlowPayload) =>
        IF "1" \in DOMAIN NetData.m.Inverters.m
        THEN /\ Returned
             /\ result.m.battery_mode.m.value = FromInverter1("Battery_Mode")
             /\ result.m.state_of_charge.m.value = FromInverter1("SOC")
             /\ result = _system_power_flow(_status_data(NetDoc), OnlyInverter1)
        ELSE result = Raise("KeyError")

\* a payload with an inverter, but not inverter "1", made the call raise
C7_Witness ==
    /\ call.op = "current_power_flow"
    /\ FlowPayload
    /\ DOMAIN NetData.m.Inverters.m = {"2"}
    /\ result = Raise("KeyError")

C9_TimeoutApplied ==
    Called => \A i \in 1..Len(requests) : requests[i].timeout = Seconds(timeout)

\* C10: host, timeout and scheme keep the constructor's values through
\* every operation (the scheme is https exactly when the secure flag was
\* set), and a call repeated on the same response gives the same outcome.
C10_ClientImmutable ==
    /\ [](/\ host = ctor.host
          /\ timeout = ctor.timeout
          /\ protocol = IF ctor.useHTTPS THEN "https" ELSE "http")
    /\ [][/\ host' = host /\ timeout' = timeout /\ protocol' = protocol
          /\ call' = call => result' = result]_vars

\* a client built for secure transport has made a call
C10_Witness ==
    /\ Called
    /\ ctor.useHTTPS
    /\ protocol = "https"
    /\ Returned
    /\ StrContains(TheUrl, "https://" \o host \o "/solar_api/v1/")

---------------------------------------------------------------------------
(* The field copy rule on its own: Init draws the arguments of one _copy    *)
(* call, CopyStep applies it.                                              *)

CopyItems ==
    {Num(v) : v \in 0..MaxVal} \cup {Str("on"), None, Arr(<<>>), Obj(EmptyMap)}
    \cup {Obj([Value |-> Num(v)]) : v \in 0..MaxVal}
    \cup {Obj([Value |-> Num(v), Unit |-> Str("W")]) : v \in 0..MaxVal}
    \cup {Obj([Unit |-> Str("W")]), Obj([Value |-> None, Unit |-> Str("")])}

CopySources == {Obj(EmptyMap), Obj([Z |-> Num(1)])} \cup {Obj([X |-> i]) : i \in CopyItems}

OldReading == Obj([value |-> Num(1), unit |-> Str("V")])

CopyTargets ==
    {Obj(EmptyMap), Obj([y |-> OldReading]), Obj([other |-> OldReading]),
     Obj([y |-> OldReading, other |-> Obj([value |-> Str("kept")])])}

CopyUnits == {None, Str("kW"), Str("")}

InitCopy ==
    /\ Constructed("fronius.local", FALSE, 10)
    /\ defaulttimeout = None
    /\ net = [kind |-> "none"]
    /\ requests = <<>>
    /\ result = NoResult
    /\ \E s \in CopySources, tg \in CopyTargets, sid \in {"X", "Z"},
          tid \in {"y", "other"}, u \in CopyUnits :
            call = [op |-> "_copy", source |-> s, target |-> tg, sid |-> sid,
                    tid |-> tid, unit |-> u]

CopyStep ==
    /\ call.op = "_copy"
    /\ result = NoResult
    /\ result' = _copy(call.source, call.target, call.sid, call.tid, call.unit)
    /\ UNCHANGED <<host, timeout, protocol, ctor, defaulttimeout, net, call, requests>>

SpecCopy == InitCopy /\ [][CopyStep]_vars

\* the reading _copy stored, and the source field it read
CopyDone == call.op = "_copy" /\ result # NoResult
CopyOut == result.m[call.tid]
CopyHas == call.sid \in DOMAIN call.source.m
CopyItem == call.source.m[call.sid]
CopyWrapped == CopyHas /\ CopyItem.t = "obj" /\ "Value" \in DOMAIN CopyItem.m

\* C3: _copy follows the four-step rule: (1) a source field that is a mapping
\* with a Value key gives value = Value and unit = Unit when Unit exists;
\* (2) any other existing source field gives {value: field} without unit;
\* (3) an absent field gives {value: 0} and no error; (4) a fixed unit
\* overrides the unit in all three cases; without a fixed unit and without a
\* source Unit the reading has no unit key; no key of target but tid changes.
C3_CopyRule ==
    CopyDone =>
        /\ result.t = "obj"
        /\ CopyOut.t = "obj"
        /\ "value" \in DOMAIN CopyOut.m
        /\ DOMAIN CopyOut.m \subseteq {"value", "unit"}
        /\ CopyWrapped => CopyOut.m.value = CopyItem.m.Value
        /\ (CopyHas /\ ~CopyWrapped) => CopyOut.m.value = CopyItem
        /\ ~CopyHas => CopyOut.m.value = Num(0)
        /\ call.unit # None => ("unit" \in DOMAIN CopyOut.m /\ CopyOut.m.unit = call.unit)
        /\ (call.unit = None /\ CopyWrapped /\ "Unit" \in DOMAIN CopyItem.m)
              => ("unit" \in DOMAIN CopyOut.m /\ CopyOut.m.unit = CopyItem.m.Unit)
        /\ (call.unit = None /\ ~(CopyWrapped /\ "Unit" \in DOMAIN CopyItem.m))
              => "unit" \notin DOMAIN CopyOut.m
        /\ DOMAIN result.m = (DOMAIN call.target.m) \cup {call.tid}
        /\ \A k \in (DOMAIN call.target.m) \ {call.tid} : result.m[k] = call.target.m[k]

\* a wrapped source field with its own Unit was copied under a fixed unit,
\* next to another key of the target
C3_Witness ==
    /\ CopyDone /\ CopyWrapped /\ "Unit" \in DOMAIN CopyItem.m
    /\ call.unit = Str("kW") /\ CopyOut.m.unit = Str("kW")
    /\ (DOMAIN call.target.m) \ {call.tid} # {}

---------------------------------------------------------------------------
(* System inverter data on its own: every combination of the four series,  *)
(* each present series over every set of inverter ids.                     *)

SeriesNames == {"DAY_ENERGY", "TOTAL_ENERGY", "YEAR_ENERGY", "PAC"}

SeriesUnit(name) == IF name = "PAC" THEN "W" ELSE "Wh"

SeriesField(name) ==
    CASE name = "DAY_ENERGY" -> "energy_day"
      [] name = "TOTAL_ENERGY" -> "energy_total"
      [] name = "YEAR_ENERGY" -> "energy_year"
      [] name = "PAC" -> "power_ac"

\* the number an inverter id spells
IdNum(i) == CHOOSE k \in 1..MaxInverters : IntStr(k) = i

\* the reading of inverter i in a series
SeriesValue(name, i, base) == base + IdNum(i) + (IF name = "PAC" THEN 10 ELSE 0)

SystemInverterPayloads ==
    UNION {
        {Obj([n \in P |-> Obj([Unit |-> Str(SeriesUnit(n)),
                                Values |-> Obj([i \in ids[n] |-> Num(SeriesValue(n, i, base))])])]) :
            ids \in [P -> SUBSET InverterIds], base \in 0..MaxVal} :
        P \in SUBSET SeriesNames}

InitSystemInverter ==
    InitWith({FALSE}, {10}, {None}, {Answer(Doc(Head1, BodyOf(d))) : d \in SystemInverterPayloads})

NextSystemInverter == current_system_inverter_data

SpecSystemInverter == InitSystemInverter /\ [][NextSystemInverter]_vars

RECURSIVE SumOver(_, _)
SumOver(values, ids) ==
    IF ids = {} THEN 0
    ELSE LET i == CHOOSE x \in ids : TRUE IN values[i].n + SumOver(values, ids \ {i})

\* C4: for a payload with any subset of DAY_ENERGY, TOTAL_ENERGY,
\* YEAR_ENERGY and PAC, and any set of inverter ids in each present series,
\* the normalizer raises nothing; inverters[id].<field> holds each id's value
\* of each present series; and each aggregate energy_day, energy_total,
\* energy_year, power_ac is the sum of its series, 0 when the series is absent.
C4_SystemInverter ==
    (call.op = "current_system_inverter_data" /\ HeadOK /\ "Body" \in DOMAIN NetDoc.m) =>
        /\ Returned
        /\ \A n \in SeriesNames :
              IF n \in DOMAIN NetData.m
              THEN /\ \A i \in DOMAIN NetData.m[n].m.Values.m :
                         result.m.inverters.m[i].m[SeriesField(n)].m.value
                            = NetData.m[n].m.Values.m[i]
                   /\ result.m[SeriesField(n)].m.value
                         = Num(SumOver(NetData.m[n].m.Values.m, DOMAIN NetData.m[n].m.Values.m))
              ELSE (HasPayload => result.m[SeriesField(n)].m.value = Num(0))

---------------------------------------------------------------------------
(* Device storage data on its own: with or without a Controller, with or   *)
(* without Modules, the modules a sequence of up to MaxModules.             *)

ModuleChoices == {Module0, Module1, Obj(EmptyMap)}

ModuleLists == UNION {[1..n -> ModuleChoices] : n \in 0..MaxModules}

StoragePayloads ==
    {Obj([Controller |-> c]) : c \in {Controller1, Obj(EmptyMap)}}
    \cup {Obj([Modules |-> Arr(ms)]) : ms \in ModuleLists}
    \cup {Obj([Controller |-> c, Modules |-> Arr(ms)]) :
            c \in {Controller1, Obj(EmptyMap)}, ms \in ModuleLists}
    \cup {Obj([Other |-> Num(1)])}

InitStorage ==
    InitWith({FALSE}, {10}, {None}, {Answer(Doc(h, BodyOf(d))) : h \in Heads, d \in StoragePayloads})

NextStorage == current_storage_data

SpecStorage == InitStorage /\ [][NextStorage]_vars

ControllerKeys ==
    {ControllerFields[i][2] : i \in 1..Len(ControllerFields)}
    \cup {DetailsFields[i][2] : i \in 1..Len(DetailsFields)}

\* C5: a payload whose Modules is a sequence of n modules gives a modules
\* mapping with exactly the keys 0..n-1, modules[k] being the module
\* normalizer's result for the k-th module; without Modules there is no
\* modules key; a Controller's normalized fields are merged into the bundle,
\* and without Controller no controller field is added; no error is raised
\* when either key is missing.
C5_StorageModules ==
    (call.op = "current_storage_data" /\ HasPayload) =>
        /\ Returned
        /\ IF "Modules" \in DOMAIN NetData.m
           THEN LET mods == NetData.m.Modules.a
                IN  /\ "modules" \in DOMAIN result.m
                    /\ DOMAIN result.m.modules.m = 0..(Len(mods) - 1)
                    /\ \A k \in 0..(Len(mods) - 1) :
                          result.m.modules.m[k] = _module_data(mods[k + 1])
           ELSE "modules" \notin DOMAIN result.m
        /\ IF "Controller" \in DOMAIN NetData.m
           THEN LET c == _controller_data(NetData.m.Controller)
                IN  \A k \in DOMAIN c.m : k \in DOMAIN result.m /\ result.m[k] = c.m[k]
           ELSE DOMAIN result.m \cap ControllerKeys = {}

\* two modules, the first enabled and the second not, keyed 0 and 1
C5_Witness ==
    /\ call.op = "current_storage_data"
    /\ HasPayload /\ Returned
    /\ "Controller" \notin DOMAIN NetData.m
    /\ "modules" \in DOMAIN result.m
    /\ DOMAIN result.m.modules.m = {0, 1}
    /\ result.m.modules.m[0].m.enable.m.value = Num(1)
    /\ result.m.modules.m[1].m.enable.m.value = Num(0)

=============================================================================
